---------------------------- MODULE Spec2Model ----------------------------
(***************************************************************************)
(* dirr (src/src/main.rs): a directory lister with exclusion patterns and  *)
(* optional metadata.  The module models                                   *)
(*   - main's argument loop, generate_tree (the recursion as an explicit   *)
(*     stack of frames, one read_dir entry per step), is_excluded and      *)
(*     print_tree                              (Spec, SpecWalk);           *)
(*   - format_file_size on unsigned 64-bit sizes (SpecSize);               *)
(*   - format_time                               (SpecTime).               *)
(* Strings are sequences of one-character strings, so that splitting,      *)
(* joining and regex search are computed, not assumed.                     *)
(***************************************************************************)
EXTENDS Integers, Sequences, FiniteSets, TLC

VARIABLES
    args,              \* std::env::args(): args[1] is the program name
    argi,              \* index of the argument main's loop looks at next
    show_meta,         \* main.rs:139
    exclude_patterns,  \* main.rs:140, the compiled patterns
    fs,                \* the directory tree below the root: [nodes, dirs]
    pc,                \* where main is
    stack,             \* generate_tree's active calls, innermost last
    ret,               \* what generate_tree(root) returned
    reads,             \* every path fs::read_dir was called on
    open_failed,       \* the paths on which fs::read_dir returned Err
    entry_failed,      \* the paths whose iterator yielded an Err entry
    out,               \* the listing lines print_tree printed
    report,            \* the other message main printed, if any
    size, size_str,    \* format_file_size: argument and result
    mtime, now, time_str  \* format_time: argument, Utc::now(), result

vars == <<args, argi, show_meta, exclude_patterns, fs, pc, stack, ret, reads,
          open_failed, entry_failed, out, report, size, size_str, mtime, now,
          time_str>>

progVars == <<args, argi, show_meta, exclude_patterns, fs, pc, stack, ret,
              reads, open_failed, entry_failed, out, report>>
sizeVars == <<size, size_str>>
timeVars == <<mtime, now, time_str>>
otherVars == <<size, size_str, mtime, now, time_str>>

-----------------------------------------------------------------------------
(* Bounds of the model *)

MaxArgs == 3          \* arguments after the program name (Spec)
MainMaxEntries == 1   \* entries of the tree under Spec
MaxEntries == 4       \* entries of the tree under SpecWalk
MaxDepth == 3         \* nesting of the tree
MaxPatterns == 1      \* compiled patterns under SpecWalk
SubSec == 4           \* clock ticks per second (SpecTime)
Margin == 2           \* seconds tried on each side of a threshold (SpecTime)

-----------------------------------------------------------------------------
(* Strings *)

Front(s) == SubSeq(s, 1, Len(s) - 1)
Last(s) == s[Len(s)]

RECURSIVE Repeat(_, _)
Repeat(s, n) == IF n <= 0 THEN <<>> ELSE s \o Repeat(s, n - 1)

RECURSIVE SplitFrom(_, _, _, _)
SplitFrom(s, sep, i, cur) ==
    IF i > Len(s) THEN <<cur>>
    ELSE IF s[i] = sep THEN <<cur>> \o SplitFrom(s, sep, i + 1, <<>>)
    ELSE SplitFrom(s, sep, i + 1, Append(cur, s[i]))

\* str::split(sep): the pieces between separators, empty pieces kept
Split(s, sep) == SplitFrom(s, sep, 1, <<>>)

MAIN_SEPARATOR == "/"

RECURSIVE JoinFrom(_, _)
JoinFrom(parts, i) ==
    IF i > Len(parts) THEN <<>>
    ELSE IF i = Len(parts) THEN parts[i]
    ELSE parts[i] \o <<MAIN_SEPARATOR>> \o JoinFrom(parts, i + 1)

\* PathBuf::join / DirEntry::path: the directory, a separator, the name
Join(dir, name) == dir \o <<MAIN_SEPARATOR>> \o name

RECURSIVE ComponentsFrom(_, _)
ComponentsFrom(parts, i) ==
    IF i > Len(parts) THEN <<>>
    ELSE IF parts[i] = <<>> \/ (parts[i] = <<".">> /\ i > 1)
         THEN ComponentsFrom(parts, i + 1)
         ELSE <<parts[i]>> \o ComponentsFrom(parts, i + 1)

\* Path::components of a relative path: empty pieces and every "." but a
\* leading one are dropped
Components(p) == IF p = <<>> THEN <<>> ELSE ComponentsFrom(Split(p, MAIN_SEPARATOR), 1)

StripPrefix(path, base) ==
    LET pcs == Components(path)
        bcs == Components(base)
    IN  IF Len(bcs) <= Len(pcs) /\ SubSeq(pcs, 1, Len(bcs)) = bcs
        THEN [ok |-> TRUE, rest |-> SubSeq(pcs, Len(bcs) + 1, Len(pcs))]
        ELSE [ok |-> FALSE, rest |-> <<>>]

-----------------------------------------------------------------------------
(* Regex::new and Regex::is_match on the syntax the arguments use: a       *)
(* literal character, "." (any character), a postfix "*" and a backslash   *)
(* before a metacharacter.  Escapes of other characters are never drawn.   *)

MetaChars == {".", "*", "\\"}
InvalidRegex == [ok |-> FALSE, items |-> <<>>]

RECURSIVE ParseFrom(_, _, _)
ParseFrom(p, i, acc) ==
    IF i > Len(p) THEN [ok |-> TRUE, items |-> acc]
    ELSE IF p[i] = "*"
         THEN IF acc = <<>> THEN InvalidRegex   \* repetition operator missing expression
              ELSE ParseFrom(p, i + 1, [acc EXCEPT ![Len(acc)].star = TRUE])
    ELSE IF p[i] = "\\"
         THEN IF i < Len(p) /\ p[i + 1] \in MetaChars
              THEN ParseFrom(p, i + 2,
                             Append(acc, [any |-> FALSE, ch |-> p[i + 1], star |-> FALSE]))
              ELSE InvalidRegex
    ELSE IF p[i] = "."
         THEN ParseFrom(p, i + 1, Append(acc, [any |-> TRUE, ch |-> ".", star |-> FALSE]))
    ELSE ParseFrom(p, i + 1, Append(acc, [any |-> FALSE, ch |-> p[i], star |-> FALSE]))

RegexNew(p) == ParseFrom(p, 1, <<>>)

ItemMatches(item, c) == item.any \/ item.ch = c

RECURSIVE MatchAt(_, _, _, _)
MatchAt(re, k, s, i) ==
    IF k > Len(re) THEN TRUE
    ELSE IF re[k].star
         THEN MatchAt(re, k + 1, s, i)
              \/ (i <= Len(s) /\ ItemMatches(re[k], s[i]) /\ MatchAt(re, k, s, i + 1))
    ELSE i <= Len(s) /\ ItemMatches(re[k], s[i]) /\ MatchAt(re, k + 1, s, i + 1)

\* Regex::is_match: an unanchored search
IsMatch(re, s) == \E i \in 1..(Len(s) + 1) : MatchAt(re, 1, s, i)

\* mutant of is_excluded: every component must match (all for any)
is_excluded_all(path, patterns) ==
    LET comps == Split(path, MAIN_SEPARATOR)
    IN  \A k \in 1..Len(comps) : \E j \in 1..Len(patterns) : IsMatch(patterns[j], comps[k])

is_excluded(path, patterns) ==
    LET comps == Split(path, MAIN_SEPARATOR)
    IN  \E k \in 1..Len(comps) : \E j \in 1..Len(patterns) : IsMatch(patterns[j], comps[k])

-----------------------------------------------------------------------------
(* The file system below the root: a node is the sequence of names leading *)
(* to an entry; dirs are the nodes that are directories.                   *)

NameA == <<"a">>
NameTmp == <<"t", "m", "p">>
NameBuild == <<"b", "u", "i", "l", "d", "_", "t", "m", "p", "_", "1">>
Names == {NameA, NameTmp, NameBuild}
WalkNames == {NameA, NameTmp}

\* main.rs:169
current_dir == <<".">>

RECURSIVE PathOf(_)
PathOf(n) == IF n = <<>> THEN current_dir ELSE Join(PathOf(Front(n)), Last(n))

EmptyTree == [nodes |-> {}, dirs |-> {}]

AddEntry(t, n, isDir) ==
    [nodes |-> t.nodes \cup {n}, dirs |-> IF isDir THEN t.dirs \cup {n} ELSE t.dirs]

\* the entries that can be created in tree t: a new name in the root or in
\* one of t's directories
NewEntries(t, names, depth) ==
    {Append(d, nm) : d \in {dd \in t.dirs \cup {<<>>} : Len(dd) < depth}, nm \in names}
        \ t.nodes

RECURSIVE Trees(_, _, _)
Trees(names, k, depth) ==
    IF k = 0 THEN {EmptyTree}
    ELSE LET prev == Trees(names, k - 1, depth)
         IN  prev \cup
             UNION {{AddEntry(t, n, isDir) : n \in NewEntries(t, names, depth),
                                            isDir \in BOOLEAN} :
                    t \in {tt \in prev : Cardinality(tt.nodes) = k - 1}}

\* fs::read_dir(path), when it succeeds: the names in that directory
DirEntries(path) == {Last(n) : n \in {m \in fs.nodes : PathOf(Front(m)) = path}}

\* Path::is_dir
is_dir(path) == \E d \in fs.dirs : PathOf(d) = path

-----------------------------------------------------------------------------
(* main's arguments *)

ProgName == <<"d", "i", "r", "r">>
FlagX == <<"-", "x">>
FlagExclude == <<"-", "-", "e", "x", "c", "l", "u", "d", "e">>
FlagM == <<"-", "m">>
FlagMeta == <<"-", "-", "m", "e", "t", "a">>
FlagH == <<"-", "h">>
FlagHelp == <<"-", "-", "h", "e", "l", "p">>

PatTmp == <<"t", "m", "p">>
PatGlobTmp == <<"*", "t", "m", "p", "*">>     \* the help text's example, main.rs:132
PatDot == <<"\\", ".">>                        \* a literal dot
PatTStarP == <<"t", ".", "*", "p">>

ExcludeFlags == {FlagX, FlagExclude}
ArgPool == {FlagX, FlagExclude, FlagM, FlagMeta, FlagH, FlagHelp,
            PatTmp, PatGlobTmp, PatDot}
ValidPatterns == {PatTmp, PatDot, PatTStarP}

RECURSIVE SeqsUpTo(_, _)
SeqsUpTo(S, n) ==
    IF n = 0 THEN {<<>>}
    ELSE LET shorter == SeqsUpTo(S, n - 1)
         IN  shorter \cup {Append(s, x) : s \in {t \in shorter : Len(t) = n - 1}, x \in S}

RECURSIVE LastFlagIndex(_, _)
LastFlagIndex(a, i) ==
    IF i = 0 THEN 0 ELSE IF a[i] \in ExcludeFlags THEN i ELSE LastFlagIndex(a, i - 1)

\* main.rs:152-155: args.split(is an exclude flag).last()
PatternArgs(a) == SubSeq(a, LastFlagIndex(a, Len(a)) + 1, Len(a))

RECURSIVE CompileFrom(_, _, _)
\* main.rs:156-163: compile in order, stop at the first pattern that fails
CompileFrom(ps, i, acc) ==
    IF i > Len(ps) THEN [ok |-> TRUE, compiled |-> acc, bad |-> <<>>]
    ELSE LET r == RegexNew(ps[i])
         IN  IF r.ok THEN CompileFrom(ps, i + 1, Append(acc, r.items))
             ELSE [ok |-> FALSE, compiled |-> acc, bad |-> ps[i]]

NoReport == [kind |-> "none", text |-> <<>>]
NoRet == [kind |-> "none", paths |-> <<>>]

AfterArg(i) == IF i + 1 > Len(args) THEN "tree" ELSE "args"

-----------------------------------------------------------------------------
(* main: the argument loop, main.rs:142-167 *)

ArgHelp ==
    /\ pc = "args"
    /\ args[argi] \in {FlagHelp, FlagH}
    /\ report' = [kind |-> "help", text |-> <<>>]
    /\ pc' = "done"
    /\ UNCHANGED <<args, argi, show_meta, exclude_patterns, fs, stack, ret, reads,
                   open_failed, entry_failed, out>>
    /\ UNCHANGED otherVars

ArgMeta ==
    /\ pc = "args"
    /\ args[argi] \in {FlagMeta, FlagM}
    /\ show_meta' = TRUE
    /\ argi' = argi + 1
    /\ pc' = AfterArg(argi)
    /\ UNCHANGED <<args, exclude_patterns, fs, stack, ret, reads, open_failed,
                   entry_failed, out, report>>
    /\ UNCHANGED otherVars

ArgExcludeOk ==
    /\ pc = "args"
    /\ args[argi] \in {FlagExclude, FlagX}
    /\ LET c == CompileFrom(PatternArgs(args), 1, <<>>)
       IN  /\ c.ok
           /\ exclude_patterns' = exclude_patterns \o c.compiled
    /\ argi' = argi + 1
    /\ pc' = AfterArg(argi)
    /\ UNCHANGED <<args, show_meta, fs, stack, ret, reads, open_failed,
                   entry_failed, out, report>>
    /\ UNCHANGED otherVars

ArgExcludeInvalid ==
    /\ pc = "args"
    /\ args[argi] \in {FlagExclude, FlagX}
    /\ LET c == CompileFrom(PatternArgs(args), 1, <<>>)
       IN  /\ ~c.ok
           /\ exclude_patterns' = exclude_patterns \o c.compiled
           /\ report' = [kind |-> "invalid_pattern", text |-> c.bad]
    /\ pc' = "done"
    /\ UNCHANGED <<args, argi, show_meta, fs, stack, ret, reads, open_failed,
                   entry_failed, out>>
    /\ UNCHANGED otherVars

ArgOther ==
    /\ pc = "args"
    /\ args[argi] \notin {FlagHelp, FlagH, FlagMeta, FlagM, FlagExclude, FlagX}
    /\ argi' = argi + 1
    /\ pc' = AfterArg(argi)
    /\ UNCHANGED <<args, show_meta, exclude_patterns, fs, stack, ret, reads,
                   open_failed, entry_failed, out, report>>
    /\ UNCHANGED otherVars

-----------------------------------------------------------------------------
(* generate_tree, main.rs:91-111.  A frame is one active call: its path,   *)
(* whether read_dir has been called, the entries the iterator has not      *)
(* yielded yet, and its results vector.                                    *)

NewFrame(path) == [path |-> path, opened |-> FALSE, remaining |-> {}, results |-> <<>>]

Top == stack[Len(stack)]

\* main.rs:170: the call on the root
CallGenerateTree ==
    /\ pc = "tree"
    /\ stack' = <<NewFrame(current_dir)>>
    /\ pc' = "walk"
    /\ UNCHANGED <<args, argi, show_meta, exclude_patterns, fs, ret, reads,
                   open_failed, entry_failed, out, report>>
    /\ UNCHANGED otherVars

\* main.rs:110 (and :104 in the caller): Ok(results) goes to the caller, which
\* extends its own results with it; the root's goes to main
ReturnOk(results) ==
    LET rest == Front(stack)
    IN  IF rest = <<>>
        THEN /\ stack' = <<>>
             /\ ret' = [kind |-> "Ok", paths |-> results]
             /\ pc' = "match"
        ELSE /\ stack' = [rest EXCEPT ![Len(rest)].results = @ \o results]
             /\ UNCHANGED <<ret, pc>>

\* main.rs:97: read_dir succeeds
ReadDirOk ==
    /\ pc = "walk"
    /\ ~Top.opened
    /\ reads' = reads \cup {Top.path}
    /\ stack' = [stack EXCEPT ![Len(stack)].opened = TRUE,
                              ![Len(stack)].remaining = DirEntries(Top.path)]
    /\ UNCHANGED <<args, argi, show_meta, exclude_patterns, fs, pc, ret,
                   open_failed, entry_failed, out, report>>
    /\ UNCHANGED otherVars

\* main.rs:97: read_dir fails, the if-let is skipped and the call returns
\* Ok(empty), main.rs:110
ReadDirErr ==
    /\ pc = "walk"
    /\ ~Top.opened
    /\ reads' = reads \cup {Top.path}
    /\ open_failed' = open_failed \cup {Top.path}
    /\ ReturnOk(Top.results)
    /\ UNCHANGED <<args, argi, show_meta, exclude_patterns, fs, entry_failed,
                   out, report>>
    /\ UNCHANGED otherVars

\* mutant of VisitEntry: the directory is pushed but not descended into
VisitEntryNoDescend(frames, cur, patterns) ==
    IF is_excluded(cur, patterns) THEN frames
    ELSE [frames EXCEPT ![Len(frames)].results = Append(@, cur)]

\* the body of generate_tree's loop for one entry
VisitEntry(frames, cur, patterns) ==
    IF is_excluded(cur, patterns) THEN frames
    ELSE LET pushed == [frames EXCEPT ![Len(frames)].results = Append(@, cur)]
         IN  IF is_dir(cur) THEN Append(pushed, NewFrame(cur)) ELSE pushed

\* main.rs:98-106: the iterator yields an entry
NextEntry ==
    /\ pc = "walk"
    /\ Top.opened
    /\ \E name \in Top.remaining :
          LET current_path == Join(Top.path, name)
              taken == [stack EXCEPT ![Len(stack)].remaining = @ \ {name}]
          IN  stack' = VisitEntry(taken, current_path, exclude_patterns)
    /\ UNCHANGED <<args, argi, show_meta, exclude_patterns, fs, pc, ret, reads,
                   open_failed, entry_failed, out, report>>
    /\ UNCHANGED otherVars

\* main.rs:99: the iterator yields Err; the ? returns it, and the ? of every
\* caller (main.rs:104) returns it in turn, up to main
EntryErr ==
    /\ pc = "walk"
    /\ Top.opened
    /\ entry_failed' = entry_failed \cup {Top.path}
    /\ stack' = <<>>
    /\ ret' = [kind |-> "Err", paths |-> <<>>]
    /\ pc' = "match"
    /\ UNCHANGED <<args, argi, show_meta, exclude_patterns, fs, reads,
                   open_failed, out, report>>
    /\ UNCHANGED otherVars

\* main.rs:107-110: the iterator is exhausted
Return ==
    /\ pc = "walk"
    /\ Top.opened
    /\ Top.remaining = {}
    /\ ReturnOk(Top.results)
    /\ UNCHANGED <<args, argi, show_meta, exclude_patterns, fs, reads,
                   open_failed, entry_failed, out, report>>
    /\ UNCHANGED otherVars

-----------------------------------------------------------------------------
(* print_tree, main.rs:72-89 *)

BarIndent == <<"|", " ", " ", " ">>
Branch == <<"|", "-", "-">>

\* Path::display of the stripped path
Display(comps) == JoinFrom(comps, 1)

\* main.rs:77-85: the text after the path, one element: nothing without
\* --meta; with it, format_metadata's text or the error text of line 81
MetaChoices(meta) == IF meta THEN {" (<size> modified <time>)", " (Error fetching metadata)"}
                     ELSE {""}

\* mutant of Line: the depth is counted on the path as returned, root included
LineUnstrippedDepth(path, root, meta_info) ==
    LET sp == StripPrefix(path, root)
        depth == Len(Components(path))
    IN  IF ~sp.ok THEN [kind |-> "skip", text |-> <<>>]
        ELSE IF depth - 1 < 0 THEN [kind |-> "panic", text |-> <<>>]
        ELSE [kind |-> "line",
              text |-> Repeat(BarIndent, depth - 1) \o Branch \o Display(sp.rest)
                       \o <<meta_info>>]

\* main.rs:74-86 for one path: the line, no line (the prefix does not strip),
\* or the usize underflow of depth - 1
Line(path, root, meta_info) ==
    LET sp == StripPrefix(path, root)
        depth == Len(sp.rest)
    IN  IF ~sp.ok THEN [kind |-> "skip", text |-> <<>>]
        ELSE IF depth - 1 < 0 THEN [kind |-> "panic", text |-> <<>>]
        ELSE [kind |-> "line",
              text |-> Repeat(BarIndent, depth - 1) \o Branch \o Display(sp.rest)
                       \o <<meta_info>>]

RECURSIVE PrintFrom(_, _, _, _, _)
PrintFrom(paths, root, metas, i, acc) ==
    IF i > Len(paths) THEN [panic |-> FALSE, lines |-> acc]
    ELSE LET l == Line(paths[i], root, metas[i])
         IN  IF l.kind = "panic" THEN [panic |-> TRUE, lines |-> acc]
             ELSE IF l.kind = "skip" THEN PrintFrom(paths, root, metas, i + 1, acc)
             ELSE PrintFrom(paths, root, metas, i + 1, Append(acc, l.text))

print_tree(paths, root, metas) == PrintFrom(paths, root, metas, 1, <<>>)

\* main.rs:171
PrintTree ==
    /\ pc = "match"
    /\ ret.kind = "Ok"
    /\ \E metas \in [1..Len(ret.paths) -> MetaChoices(show_meta)] :
          LET p == print_tree(ret.paths, current_dir, metas)
          IN  /\ out' = p.lines
              /\ pc' = IF p.panic THEN "panic" ELSE "done"
    /\ UNCHANGED <<args, argi, show_meta, exclude_patterns, fs, stack, ret, reads,
                   open_failed, entry_failed, report>>
    /\ UNCHANGED otherVars

\* main.rs:172
PrintError ==
    /\ pc = "match"
    /\ ret.kind = "Err"
    /\ report' = [kind |-> "io_error", text |-> <<>>]
    /\ pc' = "done"
    /\ UNCHANGED <<args, argi, show_meta, exclude_patterns, fs, stack, ret, reads,
                   open_failed, entry_failed, out>>
    /\ UNCHANGED otherVars

-----------------------------------------------------------------------------
(* Specifications of the program *)

IdleSize == /\ size = <<>>
            /\ size_str = <<>>
IdleTime == /\ mtime = [secs |-> 0, sub |-> 0, eons |-> 0]
            /\ now = 0
            /\ time_str = <<>>

ProgStart ==
    /\ argi = 2
    /\ show_meta = FALSE
    /\ exclude_patterns = <<>>
    /\ stack = <<>>
    /\ ret = NoRet
    /\ reads = {}
    /\ open_failed = {}
    /\ entry_failed = {}
    /\ out = <<>>
    /\ report = NoReport

\* main is started with any argument list on any tree
Init ==
    /\ args \in {<<ProgName>> \o a : a \in SeqsUpTo(ArgPool, MaxArgs)}
    /\ fs \in Trees(Names, MainMaxEntries, MaxDepth)
    /\ pc = IF Len(args) < 2 THEN "tree" ELSE "args"
    /\ ProgStart
    /\ IdleSize /\ IdleTime

WalkNext ==
    \/ CallGenerateTree
    \/ ReadDirOk
    \/ ReadDirErr
    \/ NextEntry
    \/ EntryErr
    \/ Return
    \/ PrintTree
    \/ PrintError

Next ==
    \/ ArgHelp
    \/ ArgMeta
    \/ ArgExcludeOk
    \/ ArgExcludeInvalid
    \/ ArgOther
    \/ WalkNext

Spec == Init /\ [][Next]_vars

\* main at line 169, after "dirr [-m] [-x p1 .. pn]" with patterns that compile
WalkArgs(meta, ps) ==
    <<ProgName>> \o (IF meta THEN <<FlagM>> ELSE <<>>) \o (IF ps = <<>> THEN <<>> ELSE <<FlagX>> \o ps)

RECURSIVE CompiledOf(_)
CompiledOf(ps) == IF ps = <<>> THEN <<>> ELSE <<RegexNew(Head(ps)).items>> \o CompiledOf(Tail(ps))

WalkInit ==
    /\ \E meta \in BOOLEAN, ps \in SeqsUpTo(ValidPatterns, MaxPatterns) :
          /\ args = WalkArgs(meta, ps)
          /\ show_meta = meta
          /\ exclude_patterns = CompiledOf(ps)
    /\ argi = Len(args) + 1
    /\ fs \in Trees(WalkNames, MaxEntries, MaxDepth)
    /\ pc = "tree"
    /\ stack = <<>>
    /\ ret = NoRet
    /\ reads = {}
    /\ open_failed = {}
    /\ entry_failed = {}
    /\ out = <<>>
    /\ report = NoReport
    /\ IdleSize /\ IdleTime

SpecWalk == WalkInit /\ [][WalkNext]_vars

-----------------------------------------------------------------------------
(* Properties of the walk and the listing (SpecWalk) *)

Returned == pc \in {"match", "done", "panic"}
NoReadFailure == open_failed = {} /\ entry_failed = {}

SeqSet(s) == {s[i] : i \in 1..Len(s)}

\* every path some call has pushed so far
Collected == SeqSet(ret.paths) \cup UNION {SeqSet(stack[k].results) : k \in 1..Len(stack)}

IndexIn(s, x) == CHOOSE i \in 1..Len(s) : s[i] = x

Descendants(d) == {n \in fs.nodes : Len(d) < Len(n) /\ SubSeq(n, 1, Len(d)) = d}

Matched(name) == \E j \in 1..Len(exclude_patterns) : IsMatch(exclude_patterns[j], name)

\* C1: with no exclusion pattern and no read failure, generate_tree(root)
\* returns Ok with every entry below the root exactly once and never the root,
\* and the descendants of each directory are the contiguous block right after
\* it (so a directory precedes its children and its block precedes any later
\* sibling): the pre-order depth-first listing.
C1_PreorderListing ==
    (Returned /\ exclude_patterns = <<>> /\ NoReadFailure) =>
        /\ ret.kind = "Ok"
        /\ Len(ret.paths) = Cardinality(fs.nodes)
        /\ current_dir \notin SeqSet(ret.paths)
        /\ \A n \in fs.nodes : PathOf(n) \in SeqSet(ret.paths)
        /\ \A d \in fs.nodes :
              LET i == IndexIn(ret.paths, PathOf(d))
              IN  {IndexIn(ret.paths, PathOf(n)) : n \in Descendants(d)}
                      = (i + 1)..(i + Cardinality(Descendants(d)))

C1_Witness ==
    /\ pc = "done"
    /\ exclude_patterns = <<>>
    /\ NoReadFailure
    /\ ret.paths = <<PathOf(<<NameA>>), PathOf(<<NameA, NameTmp>>), PathOf(<<NameTmp>>)>>

\* C2: at every moment of the walk, no collected path has a component that a
\* pattern matches, and an entry with a matched name on its path below the
\* root (an excluded directory, or anything below one) is neither collected
\* nor read_dir'ed.
C2_ExcludedNeverListedNorRead ==
    /\ \A p \in Collected :
          LET comps == Split(p, MAIN_SEPARATOR)
          IN  \A k \in 1..Len(comps) : ~Matched(comps[k])
    /\ \A n \in fs.nodes :
          (\E k \in 1..Len(n) : Matched(n[k])) =>
              (PathOf(n) \notin Collected /\ PathOf(n) \notin reads)

C2_Witness ==
    /\ pc = "done"
    /\ exclude_patterns = <<RegexNew(PatTmp).items>>
    /\ NoReadFailure
    /\ fs.nodes = {<<NameA>>, <<NameTmp>>, <<NameTmp, NameA>>}
    /\ ret.paths = <<PathOf(<<NameA>>)>>
    /\ reads = {current_dir}

\* C3 as stated: when only nested directories fail to read (read_dir or an
\* entry of the iterator), generate_tree(root) still returns Ok and the failing
\* directories stay in the result.
C3_NestedFailureNotFatal ==
    (Returned /\ current_dir \notin open_failed \cup entry_failed) =>
        /\ ret.kind = "Ok"
        /\ (open_failed \cup entry_failed) \subseteq SeqSet(ret.paths)

\* C4 as stated: when the root cannot be read, generate_tree returns Err and
\* main reports it; Ok with no path is returned only for a root that was read.
C4_RootFailureIsError ==
    /\ (Returned /\ current_dir \in open_failed \cup entry_failed) => ret.kind = "Err"
    /\ (pc = "done" /\ current_dir \in open_failed \cup entry_failed) =>
           (report.kind = "io_error" /\ out = <<>>)

\* C7: print_tree never underflows depth - 1 and prints one line per returned
\* path, in order; line i is "|   " repeated (nesting level - 1) times, then
\* "|--", then the path relative to the root (then the metadata text).
C7_OneIndentedLinePerPath ==
    /\ pc # "panic"
    /\ (pc = "done" /\ ret.kind = "Ok") =>
          /\ Len(out) = Len(ret.paths)
          /\ \A i \in 1..Len(out) :
                \E n \in fs.nodes :
                    /\ PathOf(n) = ret.paths[i]
                    /\ Len(n) >= 1
                    /\ LET w == 4 * (Len(n) - 1)
                       IN  /\ Len(out[i]) >= w + 4
                           /\ SubSeq(out[i], 1, w) = Repeat(BarIndent, Len(n) - 1)
                           /\ SubSeq(out[i], w + 1, w + 3) = Branch
                           /\ SubSeq(out[i], w + 4, Len(out[i]) - 1) = JoinFrom(n, 1)
                           /\ out[i][Len(out[i])] \in MetaChoices(show_meta)

C7_Witness ==
    /\ pc = "done"
    /\ ret.kind = "Ok"
    /\ Len(out) = 3
    /\ show_meta
    /\ \E i \in 1..Len(out) : Len(out[i]) > 7 /\ SubSeq(out[i], 1, 7) = BarIndent \o Branch

\* C10 as stated: an entry none of whose names below the root is matched is
\* in the result, whatever the components of the root path are.
C10_OnlyNamesBelowRootCount ==
    (Returned /\ NoReadFailure) =>
        \A n \in fs.nodes :
            (\A k \in 1..Len(n) : ~Matched(n[k])) => PathOf(n) \in SeqSet(ret.paths)

-----------------------------------------------------------------------------
(* Properties of the argument handling (Spec) *)

RECURSIVE FirstFlagIndex(_, _)
FirstFlagIndex(a, i) ==
    IF i > Len(a) THEN 0 ELSE IF a[i] \in ExcludeFlags THEN i ELSE FirstFlagIndex(a, i + 1)

\* the strings the user gave after an exclude flag
SuppliedPatterns(a) ==
    IF FirstFlagIndex(a, 2) = 0 THEN {}
    ELSE {a[i] : i \in (FirstFlagIndex(a, 2) + 1)..Len(a)} \ ExcludeFlags

\* C5 as stated: when a pattern supplied after an exclude flag is not a valid
\* regular expression, no directory is ever read and no listing line printed.
C5_InvalidPatternNoTraversal ==
    (\E p \in SuppliedPatterns(args) : ~RegexNew(p).ok) => (reads = {} /\ out = <<>>)

\* C6 as stated: "dirr -x *tmp*" compiles its pattern (no invalid-pattern
\* report) and the listing leaves out an entry named build_tmp_1.
C6_GlobPatternCompilesAndExcludes ==
    (pc = "done" /\ args = <<ProgName, FlagX, PatGlobTmp>>) =>
        /\ report.kind # "invalid_pattern"
        /\ PathOf(<<NameBuild>>) \notin SeqSet(ret.paths)

-----------------------------------------------------------------------------
(* format_file_size, main.rs:13-28.  A u64 is its seven base-1024 digits,  *)
(* least significant first (the top digit is below 16), so that every      *)
(* size up to 2^64 - 1 is within the model checker's integers.             *)

KILOBYTE == 1024            \* main.rs:15; also the base of the digits
SizeDigits == 7             \* 7 * 10 bits hold a u64
MantissaBits == 53          \* significant bits of an f64

RECURSIVE Pow2(_)
Pow2(k) == IF k = 0 THEN 1 ELSE 2 * Pow2(k - 1)

RECURSIVE BitLen(_)
BitLen(x) == IF x = 0 THEN 0 ELSE 1 + BitLen(x \div 2)

RECURSIVE TopDigit(_, _)
\* the position of the highest non-zero digit at or below i, 0 if none
TopDigit(n, i) == IF i = 0 THEN 0 ELSE IF n[i] # 0 THEN i ELSE TopDigit(n, i - 1)

BitLength(n) ==
    LET t == TopDigit(n, Len(n))
    IN  IF t = 0 THEN 0 ELSE 10 * (t - 1) + BitLen(n[t])

\* n < 1024^u
BelowUnit(n, u) == TopDigit(n, Len(n)) <= u

RECURSIVE AddAt(_, _, _)
\* n + c * 1024^(i-1); the top digit takes the last carry
AddAt(n, i, c) ==
    IF c = 0 THEN n
    ELSE IF i = Len(n) THEN [n EXCEPT ![i] = @ + c]
    ELSE LET v == n[i] + c
         IN  AddAt([n EXCEPT ![i] = v % KILOBYTE], i + 1, v \div KILOBYTE)

\* size as f64: the nearest value with 53 significant bits, ties to even
ToF64(n) ==
    LET len == BitLength(n)
    IN  IF len <= MantissaBits THEN n
        ELSE LET k == len - MantissaBits           \* 1..11 bits are dropped
                 v == n[1] + KILOBYTE * n[2]
                 low == v % Pow2(k)
                 odd == (v \div Pow2(k)) % 2 = 1
                 up == 2 * low > Pow2(k) \/ (2 * low = Pow2(k) /\ odd)
                 w == v - low + (IF up THEN Pow2(k) ELSE 0)
                 cleared == [n EXCEPT ![1] = w % KILOBYTE,
                                      ![2] = (w \div KILOBYTE) % KILOBYTE]
             IN  AddAt(cleared, 3, w \div (KILOBYTE * KILOBYTE))

\* the value below 1024^u of n, u <= 3
LowPart(n, u) ==
    n[1] + (IF u >= 2 THEN KILOBYTE * n[2] ELSE 0)
         + (IF u >= 3 THEN KILOBYTE * KILOBYTE * n[3] ELSE 0)

\* n \div 1024^u, as digits
HighPart(n, u) == SubSeq(n, u + 1, Len(n)) \o [i \in 1..u |-> 0]

\* q and r with 100 * f = q * 1024^u + r; for u = 3 the product is formed in
\* two halves of 15 bits
MulDiv100(f, u) ==
    IF u < 3
    THEN LET unit == IF u = 1 THEN KILOBYTE ELSE KILOBYTE * KILOBYTE
         IN  [q |-> (100 * f) \div unit, r |-> (100 * f) % unit]
    ELSE LET half == Pow2(15)
             hi == 100 * (f \div half)
             rest == (hi % half) * half + 100 * (f % half)
         IN  [q |-> hi \div half + rest \div (half * half), r |-> rest % (half * half)]

UnitHalf(u) == IF u = 1 THEN 512 ELSE IF u = 2 THEN 512 * KILOBYTE
               ELSE 512 * KILOBYTE * KILOBYTE

\* mutant of Hundredths: the digits after the second decimal are cut off
HundredthsTruncated(f, u) == MulDiv100(f, u).q

\* {:.2}: the hundredths of f / 1024^u, exact, ties to the even digit
Hundredths(f, u) ==
    LET d == MulDiv100(f, u)
    IN  IF d.r > UnitHalf(u) \/ (d.r = UnitHalf(u) /\ d.q % 2 = 1) THEN d.q + 1 ELSE d.q

DigitChars == <<"0", "1", "2", "3", "4", "5", "6", "7", "8", "9">>

RECURSIVE DivTen(_, _, _)
\* n \div 10 and n % 10, from the top digit down
DivTen(n, i, rem) ==
    IF i = 0 THEN [q |-> n, r |-> rem]
    ELSE LET cur == rem * KILOBYTE + n[i]
         IN  DivTen([n EXCEPT ![i] = cur \div 10], i - 1, cur % 10)

RECURSIVE DecimalFrom(_)
DecimalFrom(n) ==
    IF TopDigit(n, Len(n)) = 0 THEN <<>>
    ELSE LET d == DivTen(n, Len(n), 0)
         IN  Append(DecimalFrom(d.q), DigitChars[d.r + 1])

\* Display of an unsigned integer
Decimal(n) == IF TopDigit(n, Len(n)) = 0 THEN <<"0">> ELSE DecimalFrom(n)

\* format!("{:.2}", x / 1024^u) for the f64 x
Fixed2(x, u) ==
    LET h == Hundredths(LowPart(x, u), u)
        whole == AddAt(HighPart(x, u), 1, h \div 100)
    IN  Decimal(whole) \o <<".", DigitChars[((h % 100) \div 10) + 1], DigitChars[(h % 10) + 1]>>

format_file_size(n) ==
    IF BelowUnit(n, 1) THEN Decimal(n) \o <<" ", "B">>
    ELSE IF BelowUnit(n, 2) THEN Fixed2(ToF64(n), 1) \o <<" ", "K", "B">>
    ELSE IF BelowUnit(n, 3) THEN Fixed2(ToF64(n), 2) \o <<" ", "M", "B">>
    ELSE Fixed2(ToF64(n), 3) \o <<" ", "G", "B">>

FormatFileSize ==
    /\ size_str = <<>>
    /\ size_str' = format_file_size(size)
    /\ UNCHANGED <<size, timeVars, progVars>>

IdleProg ==
    /\ args = <<ProgName>>
    /\ fs = EmptyTree
    /\ pc = "idle"
    /\ ProgStart

\* the sizes tried: every combination of these digits
SizeInputs ==
    {<<d1, d2, d3, d4, d5, d6, d7>> :
        d1 \in {0, 1, 128, 768, 1023}, d2 \in {0, 1, 523, 1023},
        d3 \in {0, 1, 128, 406, 1023}, d4 \in {0, 1, 1023}, d5 \in {0, 1023},
        d6 \in {0, 8}, d7 \in {0, 15}}

SizeInit ==
    /\ size \in SizeInputs
    /\ size_str = <<>>
    /\ IdleTime
    /\ IdleProg

SpecSize == SizeInit /\ [][FormatFileSize]_vars

-----------------------------------------------------------------------------
(* Properties of format_file_size (SpecSize) *)

Abs(x) == IF x < 0 THEN -x ELSE x

\* h hundredths is a nearest rendering of f / 1024^u: |100 f - h 1024^u| is at
\* most half a unit (for u = 3 the difference is formed divided by 4, from the
\* two 15-bit halves of f)
Nearest(f, u, h) ==
    IF u = 1 THEN Abs(100 * f - h * KILOBYTE) <= 512
    ELSE IF u = 2 THEN Abs(100 * f - h * KILOBYTE * KILOBYTE) <= 512 * KILOBYTE
    ELSE LET a == 25 * (f \div Pow2(15)) - h * Pow2(13)
             b == 25 * (f % Pow2(15))
         IN  Abs(a) <= 5000 /\ Abs(a * Pow2(15) + b) <= Pow2(27)

Suffix(u) == IF u = 1 THEN <<" ", "K", "B">> ELSE IF u = 2 THEN <<" ", "M", "B">>
             ELSE <<" ", "G", "B">>

\* the rendering the claim describes of the exact size n
ExpectedSize(n, str) ==
    IF \A i \in 2..Len(n) : n[i] = 0 THEN str = Decimal(n) \o <<" ", "B">>
    ELSE LET u == IF \A i \in 3..Len(n) : n[i] = 0 THEN 1
                  ELSE IF \A i \in 4..Len(n) : n[i] = 0 THEN 2 ELSE 3
         IN  \E h \in 0..100 :
                /\ Nearest(LowPart(n, u), u, h)
                /\ str = Decimal(AddAt(HighPart(n, u), 1, h \div 100))
                         \o <<".", DigitChars[((h % 100) \div 10) + 1],
                              DigitChars[(h % 10) + 1]>>
                         \o Suffix(u)

SizeExamples ==
    /\ size = <<0, 0, 0, 0, 0, 0, 0>> => size_str = <<"0", " ", "B">>
    /\ size = <<1023, 0, 0, 0, 0, 0, 0>> => size_str = <<"1", "0", "2", "3", " ", "B">>
    /\ size = <<0, 1, 0, 0, 0, 0, 0>> => size_str = <<"1", ".", "0", "0", " ", "K", "B">>
    /\ size = <<0, 0, 1, 0, 0, 0, 0>> => size_str = <<"1", ".", "0", "0", " ", "M", "B">>
    /\ size = <<768, 523, 406, 1, 0, 0, 0>> =>
           size_str = <<"1", ".", "4", "0", " ", "G", "B">>

\* C8 as stated: for every u64 n the result is "n B" below 1024 and otherwise
\* the exact quotient by 1024, 1024^2 or 1024^3 (by the stated ranges) rounded
\* to two decimals with the suffix KB, MB or GB.
C8_EverySizeRounded ==
    size_str # <<>> => (ExpectedSize(size, size_str) /\ SizeExamples)

\* C8 amended: the same for every n below 2^53, the sizes an f64 holds exactly
\* (above, it is the nearest f64 to n whose quotient is rounded).
C8_SizeBelowTwoPow53Rounded ==
    (size_str # <<>> /\ size[7] = 0 /\ size[6] < 8) =>
        (ExpectedSize(size, size_str) /\ SizeExamples)

C8_Witness ==
    /\ size = <<768, 523, 406, 1, 0, 0, 0>>
    /\ size_str = <<"1", ".", "4", "0", " ", "G", "B">>

-----------------------------------------------------------------------------
(* format_time, main.rs:47-70.  Instants are counted in ticks of 1/SubSec  *)
(* second since the epoch.  mtime is the Duration argument: the instant    *)
(* eons * 2^62 + secs seconds and sub ticks.  An instant of a later eon    *)
(* is past every date chrono represents (years up to about 262000, below   *)
(* 2^43 seconds), so timestamp_opt gives None for it.                      *)

SecondsPerMinute == 60
SecondsPerHour == 3600
SecondsPerDay == 86400

RECURSIVE IntDecimal(_)
\* Display of a non-negative integer
IntDecimal(n) ==
    IF n < 10 THEN <<DigitChars[n + 1]>>
    ELSE Append(IntDecimal(n \div 10), DigitChars[(n % 10) + 1])

\* integer division of Rust: the quotient is truncated toward zero
TruncDiv(a, b) == IF a >= 0 THEN a \div b ELSE -((-a) \div b)

\* chrono::Duration::num_seconds, num_minutes, num_hours, num_days
num_seconds(e) == TruncDiv(e, SubSec)

\* mutant of num_minutes: rounded to the nearest minute
num_minutes_rounded(e) == TruncDiv(num_seconds(e) + 30, SecondsPerMinute)

num_minutes(e) == TruncDiv(num_seconds(e), SecondsPerMinute)
num_hours(e) == TruncDiv(num_seconds(e), SecondsPerHour)
num_days(e) == TruncDiv(num_seconds(e), SecondsPerDay)

\* main.rs:49-59: Utc.timestamp_opt(as_secs() as i64, 0), then now - file_time
format_time(m, current) ==
    IF m.eons > 0 THEN <<"an invalid time">>
    ELSE LET file_time == m.secs * SubSec        \* as_secs drops the sub-second part
             elapsed == current - file_time
         IN  IF elapsed < SecondsPerMinute * SubSec THEN <<"just now">>
             ELSE IF elapsed < SecondsPerHour * SubSec
                  THEN IntDecimal(num_minutes(elapsed)) \o <<" minutes ago">>
             ELSE IF elapsed < SecondsPerDay * SubSec
                  THEN IntDecimal(num_hours(elapsed)) \o <<" hours ago">>
             ELSE IntDecimal(num_days(elapsed)) \o <<" days ago">>

FormatTime ==
    /\ time_str = <<>>
    /\ time_str' = format_time(mtime, now)
    /\ UNCHANGED <<mtime, now, sizeVars, progVars>>

\* Utc::now() at whole second NowSecs plus some ticks
NowSecs == 345600

\* the ages tried, in seconds: around each threshold and each example
Ages == {0, 30, 60, 90, 3600, 9000, 86400, 259200}

TimeInit ==
    /\ now \in {NowSecs * SubSec + k : k \in 0..(SubSec - 1)}
    /\ mtime \in [secs : {NowSecs - a + d : a \in Ages, d \in (-Margin)..Margin},
                  sub : 0..(SubSec - 1),
                  eons : {0, 1}]
    /\ time_str = <<>>
    /\ IdleSize
    /\ IdleProg

SpecTime == TimeInit /\ [][FormatTime]_vars

-----------------------------------------------------------------------------
(* Properties of format_time (SpecTime) *)

\* the text the claim describes for an elapsed time of e ticks
ExpectedTime(e, str) ==
    IF e < SecondsPerMinute * SubSec THEN str = <<"just now">>
    ELSE IF e < SecondsPerHour * SubSec
         THEN str = IntDecimal(e \div (SecondsPerMinute * SubSec)) \o <<" minutes ago">>
    ELSE IF e < SecondsPerDay * SubSec
         THEN str = IntDecimal(e \div (SecondsPerHour * SubSec)) \o <<" hours ago">>
    ELSE str = IntDecimal(e \div (SecondsPerDay * SubSec)) \o <<" days ago">>

TimeExamples(e) ==
    /\ e = 30 * SubSec => time_str = <<"just now">>
    /\ e = 90 * SubSec => time_str = <<"1", " minutes ago">>
    /\ e = 9000 * SubSec => time_str = <<"2", " hours ago">>
    /\ e = 259200 * SubSec => time_str = <<"3", " days ago">>

\* C9 as stated: for every modification instant and current instant, with
\* elapsed = now - modification instant, the text is "just now" below a
\* minute, else the floored count of minutes, hours (below a day) or days.
\* (Stated on the instants chrono represents; an instant of a later eon
\* gives "an invalid time", none of the four texts.)
C9_ElapsedSinceModification ==
    (time_str # <<>> /\ mtime.eons = 0) =>
        LET e == now - (mtime.secs * SubSec + mtime.sub)
        IN  ExpectedTime(e, time_str) /\ TimeExamples(e)

\* C9 amended: the same for every modification instant chrono can represent,
\* with elapsed = now - the modification instant cut to whole seconds.
C9_ElapsedSinceWholeSecond ==
    (time_str # <<>> /\ mtime.eons = 0) =>
        LET e == now - mtime.secs * SubSec
        IN  ExpectedTime(e, time_str) /\ TimeExamples(e)

C9_Witness ==
    /\ mtime.eons = 0
    /\ mtime.sub > 0
    /\ now - mtime.secs * SubSec = 90 * SubSec + 1
    /\ time_str = <<"1", " minutes ago">>

=============================================================================
